---- MODULE Spec2Model ----
(***************************************************************************)
(* Model of the smart-attendance server. src/server.js holds two variants  *)
(* of the server: the later one (lines 147 to 363: validation, identifier  *)
(* normalization, the ALREADY_OUT branch, the home page, the daily summary *)
(* job) is modelled by Spec, SpecSeq, SpecTrim, SpecBlank, SpecResweep,    *)
(* SpecReg, SpecHome and SpecDaily, the earlier one (lines 1 to 145) by    *)
(* Spec1. The Attendance schema is src/unnamed/part_000.                   *)
(*                                                                         *)
(* The store is two collections, users and att, kept in insertion order.   *)
(* Every POST request is a slot of req, the home page's request is home,   *)
(* the two cron jobs are sweep and daily; a handler is cut at its awaits:  *)
(* each                                                                    *)
(* store operation is one atomic step, and the code that follows an await  *)
(* (reading the clock, a branch, the response) belongs to the step of the  *)
(* operation awaited. Strings are sequences of one-character strings, so   *)
(* that trim, toUpperCase and padStart are computed and not assumed.       *)
(***************************************************************************)
EXTENDS Integers, Sequences, FiniteSets, TLC

VARIABLES users, att, day, tick, req, sweep, home, daily

vars == <<users, att, day, tick, req, sweep, home, daily>>

(* ------------------------------ bounds -------------------------------- *)

\* Requests served in one behaviour (each slot of req is used once).
MaxReqs == 3
\* Calendar days the clock runs through.
MaxDay == 2

(* ------------------------------ strings ------------------------------- *)

\* String.prototype.toUpperCase on one character (the letters identifiers use).
UpperChar(c) ==
  CASE c = "a" -> "A" [] c = "b" -> "B" [] c = "c" -> "C"
    [] c = "d" -> "D" [] c = "e" -> "E" [] c = "f" -> "F"
    [] OTHER -> c

toUpperCase(s) == [i \in 1..Len(s) |-> UpperChar(s[i])]

\* String.prototype.padStart(n, c): pads only a string shorter than n.
padStart(s, n, c) ==
  IF Len(s) >= n THEN s ELSE [i \in 1..(n - Len(s)) |-> c] \o s

IsSpace(c) == c = " "

RECURSIVE trimStart(_)
trimStart(s) ==
  IF s # <<>> /\ IsSpace(Head(s)) THEN trimStart(Tail(s)) ELSE s

RECURSIVE trimEnd(_)
trimEnd(s) ==
  IF s # <<>> /\ IsSpace(s[Len(s)]) THEN trimEnd(SubSeq(s, 1, Len(s) - 1)) ELSE s

\* String.prototype.trim
trim(s) == trimEnd(trimStart(s))

\* Width of a stored card key: padStart(8, '0').
KeyWidth == 8
\* Bounds of the raw identifier's length and of the name's length at /register.
MinUID == 5
MaxUID == 16
MinName == 3
\* The days the summary looks back over, getLastNDates(6, true).
WindowDays == 6

\* Mutant of Normalize: the identifier is padded but not upper-cased.
Normalize_NoUpperCase(s) == padStart(s, KeyWidth, "0")

\* cardUID.toUpperCase().padStart(8, '0')
Normalize(s) == padStart(toUpperCase(s), KeyWidth, "0")

(* ------------------------------- clock -------------------------------- *)

\* The instants of a day the clock passes through, in seconds since midnight:
\* 09:00:00, 18:00:00 and 23:59:00 (the minute the sweep is scheduled in).
Instants == <<32400, 64800, 86340>>

\* 00:05:00, the minute the summary job is scheduled in. The clock passes
\* through it, at tick 0, where that job is part of the specification.
DailyInstant == 300

\* moment().format('HH:mm:ss'): hours, minutes, seconds.
FormatTime(secs) == <<secs \div 3600, (secs \div 60) % 60, secs % 60>>

\* The time of day the sweep writes, '23:59:59'.
SweepTime == <<23, 59, 59>>

\* now.format('HH:mm:ss') and now.format('YYYY-MM-DD') of the current instant;
\* a date is kept as the day's ordinal (the code tests dates for equality and
\* counts days back from today).
NowTime == FormatTime(IF tick = 0 THEN DailyInstant ELSE Instants[tick])
NowDate == day

\* The cron expression '59 23 * * *' matches the current minute.
CronMinute == NowTime[1] = 23 /\ NowTime[2] = 59

\* The cron expression '5 0 * * *' matches the current minute.
DailyCronMinute == NowTime[1] = 0 /\ NowTime[2] = 5

\* An absent optional field (outTime before checkout), an unset local.
Absent == <<>>

(* ------------------------------- inputs ------------------------------- *)

Str_ab123 == <<"a", "b", "1", "2", "3">>
Str_AB123 == <<"A", "B", "1", "2", "3">>
Str_ab12 == <<"a", "b", "1", "2">>
Str_AB12 == <<"A", "B", "1", "2">>
Str_sp_ab123 == <<" ", "a", "b", "1", "2", "3">>
Str_sp_ab12_sp == <<" ", "a", "b", "1", "2", " ">>
Str_00000 == <<"0", "0", "0", "0", "0">>
Str_sp_sp == <<" ", " ">>
Str_hex16 ==
  <<"0", "1", "2", "3", "4", "5", "6", "7", "8", "9", "a", "b", "c", "d", "e", "f">>
Str_hex17 == Str_hex16 \o <<"0">>
Str_empty == <<>>
Str_Al == <<"A", "l">>
Str_sp_Al_sp == <<" ", "A", "l", " ">>
Str_Ann == <<"A", "n", "n">>
Str_Asha == <<"A", "s", "h", "a">>

\* Request bodies of the concurrent specification.
Names == {Str_Asha}
RegUIDs == {Str_ab123, Str_AB123}
ScanUIDs == {Str_ab123, Str_AB123, Str_ab12}

\* Request bodies of the sequential specification.
SeqRegUIDs == {Str_ab123, Str_ab12}
SeqScanUIDs == {Str_ab123, Str_AB123}

\* Request bodies of the sequential specification with padded input: an
\* identifier that comes with a leading space, and the same without.
TrimRegUIDs == {Str_sp_ab123}
TrimScanUIDs == {Str_sp_ab123, Str_ab123}

\* Request bodies of the sequential specification with blank input: a card
\* registered as five zeros, and scans that send nothing or only spaces.
BlankRegUIDs == {Str_00000}
BlankScanUIDs == {Str_empty, Str_sp_sp}

\* Request bodies of the specification with the home page: one card.
HomeUIDs == {Str_ab123}

\* Request bodies of the registration specification: names and identifiers on
\* both sides of every validation bound.
ValNames == {Str_empty, Str_Al, Str_sp_Al_sp, Str_Ann}
ValUIDs == {Str_empty, Str_ab12, Str_sp_ab12_sp, Str_ab123, Str_hex16, Str_hex17}

(* ------------------------------- store -------------------------------- *)

\* Model.findOne(filter): the first matching document in natural order, or none.
\* hits are the positions of the documents that match; 0 stands for null.
FindOne(hits) ==
  IF hits = {} THEN 0 ELSE CHOOSE i \in hits : \A j \in hits : i <= j

\* Mutant of FindUser: the filter is dropped, any stored user is returned.
FindUser_NoFilter(uid) == FindOne(1..Len(users))

\* User.findOne({ cardUID })
FindUser(uid) == FindOne({i \in 1..Len(users) : users[i].cardUID = uid})

\* Mutant of FindRecord: the filter without its date.
FindRecord_AnyDate(uid, d) == FindOne({i \in 1..Len(att) : att[i].cardUID = uid})

\* Attendance.findOne({ cardUID, date })
FindRecord(uid, d) ==
  FindOne({i \in 1..Len(att) : att[i].cardUID = uid /\ att[i].date = d})

\* Mutant of NewAttendance: the record is built without its inTime.
NewAttendance_NoInTime(uid, nm, d, t) ==
  [cardUID |-> uid, name |-> nm, date |-> d, inTime |-> Absent, outTime |-> Absent]

\* new Attendance({ cardUID, name, date, inTime }): outTime is absent.
NewAttendance(uid, nm, d, t) ==
  [cardUID |-> uid, name |-> nm, date |-> d, inTime |-> t, outTime |-> Absent]

\* The unique index of the Users collection on cardUID admits the insert.
UserIndexAdmits(uid) == FindUser(uid) = 0

\* Mutant of SweepUpdateMany: the filter without its date, every open record
\* is closed.
SweepUpdateMany_AnyDate(coll, today) ==
  [i \in 1..Len(coll) |->
     IF coll[i].outTime = Absent
     THEN [coll[i] EXCEPT !.outTime = SweepTime] ELSE coll[i]]

\* Mutant of SweepMatches: the filter without its $exists test.
SweepMatches_AnyOutTime(r, today) == r.date = today

\* The filter { date: today, outTime: { $exists: false } } of the sweep.
SweepMatches(r, today) == r.date = today /\ r.outTime = Absent

\* Attendance.updateMany(filter, { $set: { outTime: '23:59:59' } })
SweepUpdateMany(coll, today) ==
  [i \in 1..Len(coll) |->
     IF SweepMatches(coll[i], today)
     THEN [coll[i] EXCEPT !.outTime = SweepTime] ELSE coll[i]]

\* result.modifiedCount of that updateMany
ModifiedCount(coll, today) ==
  Cardinality({i \in 1..Len(coll) : SweepMatches(coll[i], today)})

(* ------------------------------ requests ------------------------------ *)

NoResp == [code |-> 0, status |-> "none"]

IdleReq ==
  [kind |-> "none", pc |-> "idle", name |-> Absent, raw |-> Absent,
   cardUID |-> Absent, user |-> <<>>, date |-> 0, time |-> Absent,
   rec |-> 0, resp |-> NoResp]

Slots == 1..MaxReqs

\* Slots are taken in order: a request enters the first slot not yet used.
CanStart(i) ==
  /\ req[i].pc = "idle"
  /\ \A j \in Slots : j < i => req[j].pc # "idle"

Respond(i, code, status) ==
  [req EXCEPT ![i].pc = "done", ![i].resp = [code |-> code, status |-> status]]

\* The home page's request: its locals, and the page rendered last.
IdleHome ==
  [pc |-> "idle", todayDate |-> 0, todayRecords |-> <<>>, users |-> <<>>,
   last6Dates |-> <<>>, mergedRecords |-> <<>>]

\* The daily summary job: its locals.
IdleDaily ==
  [pc |-> "idle", last6Dates |-> <<>>, users |-> <<>>, k |-> 0,
   totalWorkdays |-> 0]

Init ==
  /\ users = <<>>
  /\ att = <<>>
  /\ day = 1
  /\ tick = 1
  /\ req = [i \in Slots |-> IdleReq]
  /\ sweep = [pc |-> "idle", today |-> 0, count |-> 0]
  /\ home = IdleHome
  /\ daily = IdleDaily

(* ------------------------- POST /register ----------------------------- *)

\* The two validations of /register, on the trimmed name and raw identifier.
NameInvalid(nm) == nm = <<>> \/ Len(nm) < MinName

\* Mutant of UIDInvalid: the length is tested on the padded key.
UIDInvalid_AfterPadding(uid) ==
  uid = <<>> \/ Len(Normalize(uid)) < MinUID \/ Len(Normalize(uid)) > MaxUID

UIDInvalid(uid) == uid = <<>> \/ Len(uid) < MinUID \/ Len(uid) > MaxUID

\* The request arrives: trim, validate, normalize, and issue User.findOne.
RegisterStart(i, nm, uid) ==
  /\ CanStart(i)
  /\ LET name == trim(nm)
         cardUID == trim(uid)
         r == [req[i] EXCEPT !.kind = "register", !.name = nm, !.raw = uid]
     IN req' =
          IF NameInvalid(name)
          THEN [req EXCEPT ![i] =
                  [r EXCEPT !.pc = "done",
                            !.resp = [code |-> 400, status |-> "NameTooShort"]]]
          ELSE IF UIDInvalid(cardUID)
          THEN [req EXCEPT ![i] =
                  [r EXCEPT !.pc = "done",
                            !.resp = [code |-> 400, status |-> "BadCardUID"]]]
          ELSE [req EXCEPT ![i] =
                  [r EXCEPT !.pc = "findUser", !.cardUID = Normalize(cardUID)]]
  /\ UNCHANGED <<users, att, day, tick, sweep, home, daily>>

\* User.findOne({ cardUID }) runs; an existing user ends the request with 400.
RegisterFindUser(i) ==
  /\ req[i].kind = "register" /\ req[i].pc = "findUser"
  /\ req' = IF FindUser(req[i].cardUID) # 0
            THEN Respond(i, 400, "AlreadyRegistered")
            ELSE [req EXCEPT ![i].pc = "save"]
  /\ UNCHANGED <<users, att, day, tick, sweep, home, daily>>

\* user.save() runs: the insert, or the index's duplicate-key error, which the
\* catch block answers with 500.
RegisterSave(i) ==
  /\ req[i].kind = "register" /\ req[i].pc = "save"
  /\ IF UserIndexAdmits(req[i].cardUID)
     THEN /\ users' = Append(users, [name |-> trim(req[i].name),
                                     cardUID |-> req[i].cardUID])
          /\ req' = Respond(i, 200, "Registered")
     ELSE /\ users' = users
          /\ req' = Respond(i, 500, "ServerError")
  /\ UNCHANGED <<att, day, tick, sweep, home, daily>>

(* ------------------------- POST /attendance --------------------------- *)

\* The request arrives: normalize the identifier and issue User.findOne.
ScanStart(i, uid) ==
  /\ CanStart(i)
  /\ req' = [req EXCEPT ![i] =
               [req[i] EXCEPT !.kind = "scan", !.pc = "findUser", !.raw = uid,
                              !.cardUID = Normalize(uid)]]
  /\ UNCHANGED <<users, att, day, tick, sweep, home, daily>>

\* User.findOne({ cardUID }) runs; no user ends the request with 404. With a
\* user, now = moment() gives dateStr and timeStr and Attendance.findOne is issued.
ScanFindUser(i) ==
  /\ req[i].kind = "scan" /\ req[i].pc = "findUser"
  /\ LET u == FindUser(req[i].cardUID)
     IN req' = IF u = 0
               THEN Respond(i, 404, "NotRegistered")
               ELSE [req EXCEPT ![i].pc = "findRecord", ![i].user = <<users[u]>>,
                                ![i].date = NowDate, ![i].time = NowTime]
  /\ UNCHANGED <<users, att, day, tick, sweep, home, daily>>

\* The branch on the document Attendance.findOne returned.
ScanBranch(i, r) ==
  IF r = 0 THEN [req EXCEPT ![i].pc = "insert"]
  ELSE IF att[r].outTime = Absent
       THEN [req EXCEPT ![i].pc = "update", ![i].rec = r]
       ELSE [Respond(i, 400, "ALREADY_OUT") EXCEPT ![i].rec = r]

\* Attendance.findOne({ cardUID, date: dateStr }) runs.
ScanFindRecord(i) ==
  /\ req[i].kind = "scan" /\ req[i].pc = "findRecord"
  /\ req' = ScanBranch(i, FindRecord(req[i].cardUID, req[i].date))
  /\ UNCHANGED <<users, att, day, tick, sweep, home, daily>>

\* Mark IN: record.save() inserts the new document, then the response.
ScanInsert(i) ==
  /\ req[i].kind = "scan" /\ req[i].pc = "insert"
  /\ att' = Append(att, NewAttendance(req[i].cardUID, req[i].user[1].name,
                                      req[i].date, req[i].time))
  /\ req' = [Respond(i, 200, "IN") EXCEPT ![i].rec = Len(att) + 1]
  /\ UNCHANGED <<users, day, tick, sweep, home, daily>>

\* Mutant of SaveOutTime: the save is lost, the document keeps its outTime.
SaveOutTime_NotSaved(coll, r, t) == coll

\* record.outTime = timeStr; record.save(): $set of outTime on the document
\* read earlier, whatever its outTime is by now.
SaveOutTime(coll, r, t) == [coll EXCEPT ![r].outTime = t]

\* Mark OUT: record.save() updates the document, then the response.
ScanUpdate(i) ==
  /\ req[i].kind = "scan" /\ req[i].pc = "update"
  /\ att' = SaveOutTime(att, req[i].rec, req[i].time)
  /\ req' = Respond(i, 200, "OUT")
  /\ UNCHANGED <<users, day, tick, sweep, home, daily>>

(* ------------------- cron '59 23 * * *' (the sweep) ------------------- *)

\* The job fires once in the 23:59 minute of a day and takes today's date.
SweepStart ==
  /\ sweep.pc = "idle" /\ CronMinute
  /\ sweep' = [sweep EXCEPT !.pc = "update", !.today = NowDate]
  /\ UNCHANGED <<users, att, day, tick, req, home, daily>>

\* Attendance.updateMany runs; modifiedCount is logged.
SweepUpdate ==
  /\ sweep.pc = "update"
  /\ att' = SweepUpdateMany(att, sweep.today)
  /\ sweep' = [sweep EXCEPT !.pc = "fired", !.count = ModifiedCount(att, sweep.today)]
  /\ UNCHANGED <<users, day, tick, req, home, daily>>

\* The job's callback is entered once more in the minute it has run in, as when
\* a second process of the server is scheduled on the same store.
SweepAgain ==
  /\ sweep.pc = "fired" /\ CronMinute
  /\ sweep' = [sweep EXCEPT !.pc = "update", !.today = NowDate]
  /\ UNCHANGED <<users, att, day, tick, req, home, daily>>

(* ------------------------------ GET / --------------------------------- *)

\* Mutant of getLastNDates: the dates are counted back from yesterday.
getLastNDates_FromYesterday(n) == [i \in 1..n |-> NowDate - i]

\* getLastNDates(n, includeToday): today and the n - 1 days before it; the
\* second parameter is not read.
getLastNDates(n) == [i \in 1..n |-> NowDate - (i - 1)]

\* The elements of an array.
Elems(s) == {s[i] : i \in 1..Len(s)}

\* a <= b for two times of day 'HH:mm:ss', as strings compare.
TimeLeq(a, b) ==
  \/ a[1] < b[1]
  \/ a[1] = b[1] /\ a[2] < b[2]
  \/ a[1] = b[1] /\ a[2] = b[2] /\ a[3] <= b[3]

\* .sort({ inTime: 1 }): ascending by inTime, equal times in stored order.
RECURSIVE SortByInTime(_)
SortByInTime(s) ==
  IF s = <<>> THEN <<>>
  ELSE LET m == CHOOSE i \in 1..Len(s) :
                  \A j \in 1..Len(s) :
                    \/ ~TimeLeq(s[j].inTime, s[i].inTime)
                    \/ s[j].inTime = s[i].inTime /\ i <= j
                    \/ i = j
       IN <<s[m]>> \o SortByInTime(SubSeq(s, 1, m - 1) \o SubSeq(s, m + 1, Len(s)))

\* Attendance.find({ date: todayDate }).sort({ inTime: 1 })
FindToday(d) == SortByInTime(SelectSeq(att, LAMBDA r : r.date = d))

\* Attendance.find({ date: { $in: dates } })
FindInDates(dates) == SelectSeq(att, LAMBDA r : r.date \in Elems(dates))

\* new Set(records.filter(r => r.cardUID === user.cardUID).map(r => r.date)).size
TotalWorkdays(records, user) ==
  Cardinality({records[i].date :
                 i \in {j \in 1..Len(records) : records[j].cardUID = user.cardUID}})

\* The text shown where a time is missing.
Dash == <<"-">>

\* users.map(...): one row per user, with today's first record of the user.
MergedRecords(us, todayRecords, attendanceLast6) ==
  [k \in 1..Len(us) |->
     LET t == FindOne({i \in 1..Len(todayRecords) :
                        todayRecords[i].cardUID = us[k].cardUID})
     IN [name |-> us[k].name,
         cardUID |-> us[k].cardUID,
         inTime |-> IF t # 0 THEN todayRecords[t].inTime ELSE Dash,
         outTime |-> IF t # 0 /\ todayRecords[t].outTime # Absent
                     THEN todayRecords[t].outTime ELSE Dash,
         totalWorkdays |-> TotalWorkdays(attendanceLast6, us[k])]]

\* The request arrives and the clock is read for todayDate.
HomeStart ==
  /\ home.pc = "idle"
  /\ home' = [home EXCEPT !.pc = "findToday", !.todayDate = NowDate]
  /\ UNCHANGED <<users, att, day, tick, req, sweep, daily>>

HomeFindToday ==
  /\ home.pc = "findToday"
  /\ home' = [home EXCEPT !.pc = "findUsers",
                          !.todayRecords = FindToday(home.todayDate)]
  /\ UNCHANGED <<users, att, day, tick, req, sweep, daily>>

\* User.find({}) returns, and the clock is read for the six dates.
HomeFindUsers ==
  /\ home.pc = "findUsers"
  /\ home' = [home EXCEPT !.pc = "findLast6", !.users = users,
                          !.last6Dates = getLastNDates(WindowDays)]
  /\ UNCHANGED <<users, att, day, tick, req, sweep, daily>>

\* The records of the six dates return and the page is rendered; the request's
\* locals are gone with it.
HomeFindLast6 ==
  /\ home.pc = "findLast6"
  /\ home' = [IdleHome EXCEPT
                 !.mergedRecords = MergedRecords(home.users, home.todayRecords,
                                                 FindInDates(home.last6Dates))]
  /\ UNCHANGED <<users, att, day, tick, req, sweep, daily>>

(* ------------------------ the daily summary job ----------------------- *)

\* Attendance.find({ cardUID, date: { $in: dates } })
FindCardInDates(uid, dates) ==
  SelectSeq(att, LAMBDA r : r.cardUID = uid /\ r.date \in Elems(dates))

\* new Set(records.map(r => r.date)).size
DistinctDates(records) == Cardinality({records[i].date : i \in 1..Len(records)})

\* User.updateOne({ cardUID }, { $set: { last6DaysWork: n } }): the first user
\* that matches gets the field, or has it overwritten.
SetLast6DaysWork(coll, uid, n) ==
  LET u == FindOne({i \in 1..Len(coll) : coll[i].cardUID = uid})
  IN [i \in 1..Len(coll) |->
        IF i = u
        THEN [name |-> coll[i].name, cardUID |-> coll[i].cardUID,
              last6DaysWork |-> n]
        ELSE coll[i]]

\* The job fires and reads the clock for the six dates.
DailyStart ==
  /\ daily.pc = "idle" /\ DailyCronMinute
  /\ daily' = [daily EXCEPT !.pc = "findUsers",
                            !.last6Dates = getLastNDates(WindowDays)]
  /\ UNCHANGED <<users, att, day, tick, req, sweep, home>>

\* User.find({}) returns; the loop starts, or ends at once with no user.
DailyFindUsers ==
  /\ daily.pc = "findUsers"
  /\ daily' = IF users = <<>>
              THEN [IdleDaily EXCEPT !.pc = "fired"]
              ELSE [daily EXCEPT !.pc = "find", !.users = users, !.k = 1]
  /\ UNCHANGED <<users, att, day, tick, req, sweep, home>>

\* Attendance.find of the user at hand returns and its dates are counted.
DailyFind ==
  /\ daily.pc = "find"
  /\ daily' = [daily EXCEPT
                 !.pc = "updateOne",
                 !.totalWorkdays =
                    DistinctDates(FindCardInDates(daily.users[daily.k].cardUID,
                                                  daily.last6Dates))]
  /\ UNCHANGED <<users, att, day, tick, req, sweep, home>>

\* User.updateOne runs; the loop goes on to the next user or ends.
DailyUpdateOne ==
  /\ daily.pc = "updateOne"
  /\ users' = SetLast6DaysWork(users, daily.users[daily.k].cardUID,
                               daily.totalWorkdays)
  /\ daily' = IF daily.k < Len(daily.users)
              THEN [daily EXCEPT !.pc = "find", !.k = daily.k + 1]
              ELSE [IdleDaily EXCEPT !.pc = "fired"]
  /\ UNCHANGED <<att, day, tick, req, sweep, home>>

(* ------------------------------- time --------------------------------- *)

Tick ==
  /\ tick < Len(Instants)
  /\ tick' = tick + 1
  /\ UNCHANGED <<users, att, day, req, sweep, home, daily>>

\* Midnight: the date changes, and a job that fired is armed for the new day.
\* The clock goes on to the day's instant first.
Midnight(first) ==
  /\ tick = Len(Instants) /\ day < MaxDay
  /\ day' = day + 1 /\ tick' = first
  /\ sweep' = IF sweep.pc = "fired" THEN [sweep EXCEPT !.pc = "idle"] ELSE sweep
  /\ daily' = IF daily.pc = "fired" THEN [daily EXCEPT !.pc = "idle"] ELSE daily
  /\ UNCHANGED <<users, att, req, home>>

NewDay == Midnight(1)

\* Midnight where the summary job is modelled: the clock goes on to 00:05:00.
NewDayDaily == Midnight(0)

(* --------------- the earlier variant (lines 1 to 145) ----------------- *)

\* POST /register: the body's name and cardUID are stored as they come.
Register1Start(i, nm, uid) ==
  /\ CanStart(i)
  /\ req' = [req EXCEPT ![i] =
               [req[i] EXCEPT !.kind = "register1", !.pc = "save", !.name = nm,
                              !.raw = uid, !.cardUID = uid]]
  /\ UNCHANGED <<users, att, day, tick, sweep, home, daily>>

\* user.save() runs; its error is answered with 400 and err.message.
Register1Save(i) ==
  /\ req[i].kind = "register1" /\ req[i].pc = "save"
  /\ IF UserIndexAdmits(req[i].cardUID)
     THEN /\ users' = Append(users, [name |-> req[i].name,
                                     cardUID |-> req[i].cardUID])
          /\ req' = Respond(i, 200, "User registered")
     ELSE /\ users' = users
          /\ req' = Respond(i, 400, "err.message")
  /\ UNCHANGED <<att, day, tick, sweep, home, daily>>

\* POST /attendance: the identifier is looked up as it comes.
Scan1Start(i, uid) ==
  /\ CanStart(i)
  /\ req' = [req EXCEPT ![i] =
               [req[i] EXCEPT !.kind = "scan1", !.pc = "findUser", !.raw = uid,
                              !.cardUID = uid]]
  /\ UNCHANGED <<users, att, day, tick, sweep, home, daily>>

Scan1FindUser(i) ==
  /\ req[i].kind = "scan1" /\ req[i].pc = "findUser"
  /\ LET u == FindUser(req[i].cardUID)
     IN req' = IF u = 0
               THEN Respond(i, 404, "Card not registered")
               ELSE [req EXCEPT ![i].pc = "findRecord", ![i].user = <<users[u]>>,
                                ![i].date = NowDate, ![i].time = NowTime]
  /\ UNCHANGED <<users, att, day, tick, sweep, home, daily>>

\* if (!record) ... else ...: a record found is marked OUT, open or not.
Scan1Branch(i, r) ==
  IF r = 0 THEN [req EXCEPT ![i].pc = "insert"]
  ELSE [req EXCEPT ![i].pc = "update", ![i].rec = r]

Scan1FindRecord(i) ==
  /\ req[i].kind = "scan1" /\ req[i].pc = "findRecord"
  /\ req' = Scan1Branch(i, FindRecord(req[i].cardUID, req[i].date))
  /\ UNCHANGED <<users, att, day, tick, sweep, home, daily>>

Scan1Insert(i) ==
  /\ req[i].kind = "scan1" /\ req[i].pc = "insert"
  /\ att' = Append(att, NewAttendance(req[i].cardUID, req[i].user[1].name,
                                      req[i].date, req[i].time))
  /\ req' = [Respond(i, 200, "Marked IN") EXCEPT ![i].rec = Len(att) + 1]
  /\ UNCHANGED <<users, day, tick, sweep, home, daily>>

Scan1Update(i) ==
  /\ req[i].kind = "scan1" /\ req[i].pc = "update"
  /\ att' = SaveOutTime(att, req[i].rec, req[i].time)
  /\ req' = Respond(i, 200, "Marked OUT")
  /\ UNCHANGED <<users, day, tick, sweep, home, daily>>

(* ---------------------------- specifications -------------------------- *)

\* No request is being served.
Quiet == \A j \in Slots : req[j].pc \in {"idle", "done"}

\* The server under concurrent requests.
Next ==
  \/ \E i \in Slots, nm \in Names, uid \in RegUIDs : RegisterStart(i, nm, uid)
  \/ \E i \in Slots : RegisterFindUser(i)
  \/ \E i \in Slots : RegisterSave(i)
  \/ \E i \in Slots, uid \in ScanUIDs : ScanStart(i, uid)
  \/ \E i \in Slots : ScanFindUser(i)
  \/ \E i \in Slots : ScanFindRecord(i)
  \/ \E i \in Slots : ScanInsert(i)
  \/ \E i \in Slots : ScanUpdate(i)
  \/ SweepStart
  \/ SweepUpdate
  \/ Tick
  \/ NewDay

Spec == Init /\ [][Next]_vars

\* The server when requests come one after another: a request is taken only
\* when the one before it has been answered. The sweep and the clock run freely.
SeqStep(regUIDs, scanUIDs) ==
  \/ \E i \in Slots, nm \in Names, uid \in regUIDs :
       Quiet /\ RegisterStart(i, nm, uid)
  \/ \E i \in Slots : RegisterFindUser(i)
  \/ \E i \in Slots : RegisterSave(i)
  \/ \E i \in Slots, uid \in scanUIDs : Quiet /\ ScanStart(i, uid)
  \/ \E i \in Slots : ScanFindUser(i)
  \/ \E i \in Slots : ScanFindRecord(i)
  \/ \E i \in Slots : ScanInsert(i)
  \/ \E i \in Slots : ScanUpdate(i)
  \/ SweepStart
  \/ SweepUpdate
  \/ Tick
  \/ NewDay

SeqNext == SeqStep(SeqRegUIDs, SeqScanUIDs)

SpecSeq == Init /\ [][SeqNext]_vars

TrimNext == SeqStep(TrimRegUIDs, TrimScanUIDs)

SpecTrim == Init /\ [][TrimNext]_vars

BlankNext == SeqStep(BlankRegUIDs, BlankScanUIDs)

SpecBlank == Init /\ [][BlankNext]_vars

\* Sequential requests, with the sweep free to run again in its minute.
ResweepNext ==
  \/ SeqStep(SeqRegUIDs, SeqScanUIDs)
  \/ SweepAgain

SpecResweep == Init /\ [][ResweepNext]_vars

\* The server started on a store that earlier days have written: one user, and
\* that user's records of the day that has just left the six-day window (closed
\* by the sweep), of the oldest day of the window (closed by a scan) and of
\* yesterday (left open by a sweep that did not run).
HomeUser == [name |-> Str_Asha, cardUID |-> Normalize(Str_ab123)]

StoredRecord(d, out) ==
  [cardUID |-> HomeUser.cardUID, name |-> HomeUser.name, date |-> d,
   inTime |-> <<9, 0, 0>>, outTime |-> out]

HomeStore ==
  <<StoredRecord(1 - WindowDays, SweepTime),
    StoredRecord(2 - WindowDays, <<18, 0, 0>>),
    StoredRecord(0, Absent)>>

InitHome ==
  /\ users \in {<<>>, <<HomeUser>>}
  /\ att = IF users = <<>> THEN <<>> ELSE HomeStore
  /\ day = 1
  /\ tick = 1
  /\ req = [i \in Slots |-> IdleReq]
  /\ sweep = [pc |-> "idle", today |-> 0, count |-> 0]
  /\ home = IdleHome
  /\ daily = IdleDaily

\* Registrations and scans of one card and requests of the home page, served
\* one at a time. The sweep and the clock run freely.
HomeNext ==
  \/ \E i \in Slots, nm \in Names, uid \in HomeUIDs :
       Quiet /\ home.pc = "idle" /\ RegisterStart(i, nm, uid)
  \/ \E i \in Slots : RegisterFindUser(i)
  \/ \E i \in Slots : RegisterSave(i)
  \/ \E i \in Slots, uid \in HomeUIDs : Quiet /\ home.pc = "idle" /\ ScanStart(i, uid)
  \/ \E i \in Slots : ScanFindUser(i)
  \/ \E i \in Slots : ScanFindRecord(i)
  \/ \E i \in Slots : ScanInsert(i)
  \/ \E i \in Slots : ScanUpdate(i)
  \/ SweepStart
  \/ SweepUpdate
  \/ Tick
  \/ NewDay
  \/ Quiet /\ HomeStart
  \/ HomeFindToday
  \/ HomeFindUsers
  \/ HomeFindLast6

SpecHome == InitHome /\ [][HomeNext]_vars

\* Registrations and scans of one card, served one at a time, with the sweep
\* and the daily summary job.
DailyNext ==
  \/ \E i \in Slots, nm \in Names, uid \in HomeUIDs :
       Quiet /\ RegisterStart(i, nm, uid)
  \/ \E i \in Slots : RegisterFindUser(i)
  \/ \E i \in Slots : RegisterSave(i)
  \/ \E i \in Slots, uid \in HomeUIDs : Quiet /\ ScanStart(i, uid)
  \/ \E i \in Slots : ScanFindUser(i)
  \/ \E i \in Slots : ScanFindRecord(i)
  \/ \E i \in Slots : ScanInsert(i)
  \/ \E i \in Slots : ScanUpdate(i)
  \/ SweepStart
  \/ SweepUpdate
  \/ DailyStart
  \/ DailyFindUsers
  \/ DailyFind
  \/ DailyUpdateOne
  \/ Tick
  \/ NewDayDaily

SpecDaily == Init /\ [][DailyNext]_vars

\* Concurrent registrations alone, over the validation inputs.
RegNext ==
  \/ \E i \in Slots, nm \in ValNames, uid \in ValUIDs : RegisterStart(i, nm, uid)
  \/ \E i \in Slots : RegisterFindUser(i)
  \/ \E i \in Slots : RegisterSave(i)

SpecReg == Init /\ [][RegNext]_vars

\* The earlier variant of the server.
Next1 ==
  \/ \E i \in Slots, nm \in Names, uid \in RegUIDs : Register1Start(i, nm, uid)
  \/ \E i \in Slots : Register1Save(i)
  \/ \E i \in Slots, uid \in ScanUIDs : Scan1Start(i, uid)
  \/ \E i \in Slots : Scan1FindUser(i)
  \/ \E i \in Slots : Scan1FindRecord(i)
  \/ \E i \in Slots : Scan1Insert(i)
  \/ \E i \in Slots : Scan1Update(i)
  \/ SweepStart
  \/ SweepUpdate
  \/ Tick
  \/ NewDay

Spec1 == Init /\ [][Next1]_vars

(* ------------------------------ properties --------------------------- *)

Records == 1..Len(att)
ScanSlots == {i \in Slots : req[i].kind = "scan"}
RegSlots == {i \in Slots : req[i].kind = "register"}
Done(i) == req[i].pc = "done"
Status(i) == req[i].resp.status

\* The scans that found their user and took (uid, d) as their key.
ScansOn(uid, d) ==
  {i \in ScanSlots : req[i].cardUID = uid /\ req[i].date = d}

\* The keys requests have computed so far.
Keys == {req[i].cardUID : i \in Slots} \ {Absent}
Days == 1..MaxDay

\* C1: the store holds at most one attendance record for each pair of user
\* identifier and calendar date, whatever scans and sweeps have run and however
\* they interleaved.
C1_OneRecordPerUserDay ==
  \A a, b \in Records :
    (att[a].cardUID = att[b].cardUID /\ att[a].date = att[b].date) => a = b

\* C2: scans of one user on one day that ran concurrently end as some sequential
\* order would: once none of that user's scans is in flight, exactly one of them
\* returned IN, at most one returned OUT, every other returned ALREADY_OUT, and
\* one record was created for the pair.
C2_ConcurrentScansLinearizable ==
  \A uid \in Keys, d \in Days :
    LET S == ScansOn(uid, d)
    IN (S # {} /\ \A i \in ScanSlots : req[i].cardUID = uid => Done(i)) =>
         /\ Cardinality({i \in S : Status(i) = "IN"}) = 1
         /\ Cardinality({i \in S : Status(i) = "OUT"}) <= 1
         /\ \A i \in S : Status(i) \in {"IN", "OUT", "ALREADY_OUT"}
         /\ Cardinality({r \in Records :
                           att[r].cardUID = uid /\ att[r].date = d}) = 1

\* C3: a scan that read its record as open and writes after the sweep closed the
\* record returns ALREADY_OUT and leaves checkOutTime at the sweep's 23:59:59.
C3_ScanAfterSweepKeepsSweepTime ==
  [][\A i \in ScanSlots :
       (/\ req[i].pc = "update"
        /\ req'[i].pc = "done"
        /\ sweep.pc = "fired" /\ sweep.today = req[i].date
        /\ att[req[i].rec].outTime = SweepTime)
       => (/\ req'[i].resp.status = "ALREADY_OUT"
           /\ att'[req[i].rec].outTime = SweepTime)]_vars

\* The first and the second scan of (uid, d), by order of arrival.
FirstScan(S) == CHOOSE i \in S : \A j \in S : i <= j
SecondScan(S) == FirstScan(S \ {FirstScan(S)})

\* C4: scans of a registered user that come one after another on one day follow
\* the two-state machine. The first, once answered, has returned IN and the
\* record it created is stored with its time of day as checkInTime; the record
\* has no checkOutTime until the second scan or the sweep sets one. The second,
\* once answered, has returned OUT and the stored checkOutTime is its time of
\* day, unless the sweep had closed the record. A status is in the response only
\* with the mutation stored.
C4_SequentialScansToggle ==
  \A uid \in Keys, d \in Days :
    LET S == ScansOn(uid, d)
        a == FirstScan(S)
        b == SecondScan(S)
        r == req[a].rec
    IN (S # {} /\ Done(a)) =>
         /\ Status(a) = "IN" /\ req[a].resp.code = 200
         /\ r \in Records
         /\ att[r].cardUID = uid /\ att[r].date = d
         /\ att[r].inTime = req[a].time
         /\ (att[r].outTime # Absent =>
               \/ att[r].outTime = SweepTime
               \/ Cardinality(S) >= 2 /\ Done(b))
         /\ (Cardinality(S) >= 2 /\ Done(b)) =>
               /\ req[b].rec = r
               /\ (att[r].outTime # SweepTime =>
                     /\ Status(b) = "OUT" /\ req[b].resp.code = 200
                     /\ att[r].outTime = req[b].time)

\* C4 witness: a user checked in at 09:00:00 and out at 18:00:00 of one day.
C4_Witness ==
  \E a, b \in ScanSlots :
    /\ a < b /\ Done(a) /\ Done(b)
    /\ Status(a) = "IN" /\ Status(b) = "OUT"
    /\ req[a].rec = req[b].rec /\ req[a].date = req[b].date
    /\ att[req[a].rec].inTime = <<9, 0, 0>>
    /\ att[req[a].rec].outTime = <<18, 0, 0>>

\* C5: a scan that finds the day's record of its user with checkOutTime set
\* returns ALREADY_OUT and changes no record and no user.
C5_ClosedRecordRejectsScan ==
  [][\A i \in Slots :
       (/\ req[i].kind \in {"scan", "scan1"}
        /\ req[i].pc = "findRecord"
        /\ req'[i] # req[i]
        /\ \E r \in Records :
             /\ att[r].cardUID = req[i].cardUID /\ att[r].date = req[i].date
             /\ att[r].outTime # Absent
             /\ \A q \in Records :
                  (att[q].cardUID = req[i].cardUID /\ att[q].date = req[i].date)
                    => r <= q)
       => (/\ req'[i].pc = "done"
           /\ req'[i].resp.status = "ALREADY_OUT"
           /\ att' = att /\ users' = users)]_vars

\* C6: when a user was registered under a raw identifier a or b, and a and b
\* normalize (upper-case, pad to 8 with '0') to one key, a scan of a followed at
\* once by a scan of b looks up the key the registration stored, finds that user
\* both times and, on one day, acts on one record: IN, then OUT.
C6_SameKeySameUser ==
  \A g \in RegSlots, a, b \in ScanSlots :
    (/\ Done(g) /\ req[g].resp.code = 200
     /\ g < a /\ b = a + 1 /\ Done(a) /\ Done(b)
     /\ Normalize(req[a].raw) = Normalize(req[b].raw)
     /\ req[g].raw \in {req[a].raw, req[b].raw})
    => /\ req[a].cardUID = req[g].cardUID
       /\ req[b].cardUID = req[g].cardUID
       /\ req[a].resp.code # 404 /\ req[b].resp.code # 404
       /\ req[a].user = req[b].user
       /\ (/\ req[a].date = req[b].date
           /\ a = FirstScan(ScansOn(req[a].cardUID, req[a].date))
           /\ att[req[a].rec].outTime # SweepTime)
          => /\ Status(a) = "IN" /\ Status(b) = "OUT"
             /\ req[a].rec = req[b].rec

\* C7: of the registrations that raced for one normalized identifier, once all
\* are answered, exactly one has succeeded and each other one was refused with
\* 400 as a duplicate; the directory holds no identifier twice.
C7_RacingRegistrations ==
  /\ \A key \in Keys :
       LET R == {i \in RegSlots : req[i].cardUID = key}
       IN (R # {} /\ \A i \in R : Done(i)) =>
            /\ Cardinality({i \in R : req[i].resp.code = 200}) = 1
            /\ \A i \in R : req[i].resp.code # 200 =>
                 req[i].resp = [code |-> 400, status |-> "AlreadyRegistered"]
  /\ \A u, v \in 1..Len(users) : users[u].cardUID = users[v].cardUID => u = v

\* The upper-cased identifier, padded on the left with '0' to 8 characters, is
\* the identifier of no user.
UnknownCard(raw) ==
  \A u \in 1..Len(users) : users[u].cardUID # padStart(toUpperCase(raw), 8, "0")

\* C8: a scan whose normalized identifier matches no registered user is answered
\* with 404 at its user lookup, and nothing it does creates or changes a record
\* or a user; no record is ever stored for an identifier that has no user.
C8_UnknownCardNoEffect ==
  [][/\ \A i \in Slots :
          (/\ req[i].kind = "scan" /\ req[i].pc = "findUser"
           /\ req'[i] # req[i]
           /\ UnknownCard(req[i].raw))
          => /\ req'[i].pc = "done"
             /\ req'[i].resp = [code |-> 404, status |-> "NotRegistered"]
             /\ req'[i].rec = 0
             /\ att' = att /\ users' = users
     /\ \A i \in Slots :
          (req[i].pc = "idle" /\ req'[i].kind = "scan") =>
             att' = att /\ users' = users
     /\ \A i \in Slots :
          (req[i].kind = "scan" /\ req[i].resp.code = 404) =>
             req'[i] = req[i]
     /\ \A r \in 1..Len(att') :
          \E u \in 1..Len(users') : users'[u].cardUID = att'[r].cardUID]_vars

\* C8 witness: with a user registered and a record stored, a scan of another
\* card has been answered 404.
C8_Witness ==
  /\ Len(users) > 0 /\ Len(att) > 0
  /\ \E i \in ScanSlots :
       /\ Done(i) /\ req[i].resp.code = 404
       /\ UnknownCard(req[i].raw)
       /\ req[i].rec = 0

\* The validation C9 states: the trimmed name has fewer than 3 characters, or
\* the trimmed raw identifier has fewer than 5 or more than 16.
C9_Rejected(nm, uid) ==
  \/ Len(trim(nm)) < 3
  \/ Len(trim(uid)) < 5
  \/ Len(trim(uid)) > 16

\* C9: a registration is refused with a validation error (400), on arrival and
\* with no user created, exactly when its trimmed name is shorter than 3 or the
\* length of its trimmed raw identifier is outside 5..16; the lengths are those
\* of the raw identifier, not of the padded key. A user is only ever added by a
\* registration that passed the validation.
C9_ValidationExactly ==
  [][/\ \A i \in Slots :
          (req[i].pc = "idle" /\ req'[i].kind = "register") =>
             LET bad == C9_Rejected(req'[i].name, req'[i].raw)
                 refused == /\ req'[i].pc = "done"
                            /\ req'[i].resp.code = 400
                            /\ req'[i].resp.status \in {"NameTooShort", "BadCardUID"}
             IN /\ bad <=> refused
                /\ users' = users
     /\ users' # users =>
          \E i \in Slots :
             /\ req[i].kind = "register" /\ req[i].pc = "save"
             /\ ~C9_Rejected(req[i].name, req[i].raw)
             /\ req'[i].resp.code = 200
             /\ users' = Append(users, [name |-> trim(req[i].name),
                                        cardUID |-> req[i].cardUID])]_vars

\* C9 witness: a name of 3 characters with an identifier of 16 is registered, an
\* identifier of 17 and one of 4 characters are refused.
C9_Witness ==
  /\ \E u \in 1..Len(users) :
       users[u].name = Str_Ann /\ users[u].cardUID = toUpperCase(Str_hex16)
  /\ \E i \in RegSlots :
       req[i].raw = Str_hex17 /\ Len(trim(req[i].name)) >= 3
         /\ req[i].resp.code = 400
  /\ \E i \in RegSlots :
       req[i].raw = Str_ab12 /\ Len(trim(req[i].name)) >= 3
         /\ req[i].resp.code = 400

Key_0000AB12 == <<"0", "0", "0", "0", "A", "B", "1", "2">>
Key_000AB123 == <<"0", "0", "0", "A", "B", "1", "2", "3">>

HasUser(key) == \E u \in 1..Len(users) : users[u].cardUID = key

\* The i-th request was the first to register its key.
FirstForKey(i) ==
  \A j \in RegSlots :
    (j < i /\ req[j].resp.code = 200) => req[j].cardUID # req[i].cardUID

\* Scans a and b are the first two of their key on one day, b of the raw
\* identifier rawB after a of rawA, and the sweep has not closed their record.
FirstTwoScans(a, b, rawA, rawB) ==
  /\ a < b /\ Done(a) /\ Done(b)
  /\ req[a].raw = rawA /\ req[b].raw = rawB
  /\ req[a].resp.code # 404 /\ req[b].resp.code # 404
  /\ req[a].date = req[b].date
  /\ a = FirstScan(ScansOn(req[a].cardUID, req[a].date))
  /\ b = SecondScan(ScansOn(req[a].cardUID, req[a].date))
  /\ att[req[a].rec].outTime # SweepTime

\* C10, as stated: a registration of a valid name with the raw identifier "ab12"
\* succeeds and stores the user under "0000AB12"; a scan of "ab12" and a later
\* scan of "AB12" that day then return IN and OUT for that user.
C10_Register_ab12 ==
  /\ \A i \in RegSlots :
       (/\ Done(i) /\ req[i].raw = Str_ab12 /\ req[i].name = Str_Asha
        /\ FirstForKey(i))
       => req[i].resp.code = 200 /\ HasUser(Key_0000AB12)
  /\ \A a, b \in ScanSlots :
       (/\ HasUser(Key_0000AB12)
        /\ FirstTwoScans(a, b, Str_ab12, Str_AB12))
       => Status(a) = "IN" /\ Status(b) = "OUT"

\* C10, amended: a registration with the raw identifier "ab12" is refused with
\* the identifier's validation error and no user is ever stored under
\* "0000AB12". A registration of "ab123", the first for its key, succeeds and
\* stores the user under "000AB123"; the user's first two scans of a day, of
\* "ab123" and then of "AB123", with no sweep in between, return IN and OUT and
\* act on one record of that user.
C10_Register_ab123 ==
  /\ ~HasUser(Key_0000AB12)
  /\ \A i \in RegSlots :
       (Done(i) /\ req[i].raw = Str_ab12 /\ req[i].name = Str_Asha)
       => req[i].resp = [code |-> 400, status |-> "BadCardUID"]
  /\ \A i \in RegSlots :
       (/\ Done(i) /\ req[i].raw = Str_ab123 /\ req[i].name = Str_Asha
        /\ FirstForKey(i))
       => /\ req[i].resp.code = 200
          /\ \E u \in 1..Len(users) :
               users[u] = [name |-> Str_Asha, cardUID |-> Key_000AB123]
  /\ \A a, b \in ScanSlots :
       (/\ HasUser(Key_000AB123)
        /\ FirstTwoScans(a, b, Str_ab123, Str_AB123))
       => /\ Status(a) = "IN" /\ Status(b) = "OUT"
          /\ req[a].rec = req[b].rec
          /\ att[req[a].rec].cardUID = Key_000AB123
          /\ att[req[a].rec].name = Str_Asha
          /\ att[req[a].rec].inTime = req[a].time
          /\ att[req[a].rec].outTime = req[b].time

\* C10 witness: "ab123" was registered, then scanned as "ab123" (IN) and as
\* "AB123" (OUT) on one day.
C10_Witness ==
  /\ \E i \in RegSlots :
       req[i].raw = Str_ab123 /\ req[i].resp.code = 200 /\ FirstForKey(i)
  /\ \E a, b \in ScanSlots :
       /\ FirstTwoScans(a, b, Str_ab123, Str_AB123)
       /\ Status(a) = "IN" /\ Status(b) = "OUT"
       /\ att[req[a].rec].cardUID = Key_000AB123

\* C11: a scan whose raw identifier is empty once trimmed is answered with
\* InvalidIdentifier (400); it resolves to no user, not even to one whose key is
\* "00000000", and it creates and closes no record.
C11_BlankScanRejected ==
  \A i \in ScanSlots :
    trim(req[i].raw) = <<>> =>
      /\ req[i].user = <<>>
      /\ req[i].rec = 0
      /\ Done(i) => req[i].resp = [code |-> 400, status |-> "InvalidIdentifier"]

\* The sweep's updateMany runs in this step.
SweepRuns == sweep.pc = "update" /\ sweep'.pc = "fired"

\* C12: a sweep's run followed at once by a second run for the same date leaves
\* the store as the first run left it. The second run matches no record and
\* reports zero; a run that finds no record of its date open changes nothing;
\* and no run changes a checkOutTime that a scan or a sweep has set.
C12_SweepIdempotent ==
  [][SweepRuns =>
       /\ SweepUpdateMany(att', sweep.today) = att'
       /\ ModifiedCount(att', sweep.today) = 0
       /\ (\A r \in Records : att[r].date = sweep.today => att[r].outTime # Absent)
            => (att' = att /\ sweep'.count = 0)
       /\ \A r \in Records :
            att[r].outTime # Absent => att'[r].outTime = att[r].outTime]_vars

\* C12 witness: the sweep has run for a date whose record an earlier run of the
\* same date had closed, and it modified nothing.
C12_Witness ==
  /\ sweep.pc = "fired" /\ sweep.count = 0
  /\ \E r \in Records :
       att[r].date = sweep.today /\ att[r].outTime = SweepTime

\* The N calendar days that end with day d.
Window(d) == {d - i : i \in 0..(WindowDays - 1)}

\* C13: the home page counts, for every user, the distinct dates of its window
\* on which the ledger holds a record of that user, open, closed by a scan or
\* closed by the sweep; the window is the N days that end with the day the
\* request reads, and the count is taken from the ledger as it is when the
\* request reads it.
C13_TotalWorkdays ==
  [][/\ (home.pc = "findUsers" /\ home'.pc = "findLast6") =>
          /\ Elems(home'.last6Dates) = Window(day)
          /\ home'.users = users
     /\ (home.pc = "findLast6" /\ home'.pc = "idle") =>
          /\ Len(home'.mergedRecords) = Len(home.users)
          /\ \A k \in 1..Len(home.users) :
               /\ home'.mergedRecords[k].cardUID = home.users[k].cardUID
               /\ home'.mergedRecords[k].totalWorkdays =
                    Cardinality({d \in Elems(home.last6Dates) :
                                   \E r \in Records :
                                     /\ att[r].cardUID = home.users[k].cardUID
                                     /\ att[r].date = d})]_vars

\* C13 witness: on the second day the page shows 2 for a user with four records:
\* yesterday's, closed by the sweep, and the open one of the day before count,
\* the two older ones have left the window.
C13_Witness ==
  /\ day = 2 /\ home.pc = "idle" /\ Len(att) = 4
  /\ \E r \in Records : att[r].date = 1 /\ att[r].outTime = SweepTime
  /\ \E r \in Records : att[r].date = 0 /\ att[r].outTime = Absent
  /\ \E k \in 1..Len(home.mergedRecords) :
       /\ home.mergedRecords[k].totalWorkdays = 2
       /\ \A r \in Records : att[r].cardUID = home.mergedRecords[k].cardUID

\* C14: in every step, a record's checkOutTime that is set stays set, and a
\* checkOutTime that is set is not earlier than the record's checkInTime.
C14_OutTimeKeptAndOrdered ==
  [][/\ \A r \in Records : att[r].outTime # Absent => att'[r].outTime # Absent
     /\ \A r \in 1..Len(att') :
          att'[r].outTime # Absent => TimeLeq(att'[r].inTime, att'[r].outTime)]_vars

\* C15: once the date has moved past day d, no record of day d is open. The
\* sweep is taken to have done its part: the formula speaks only of the days
\* whose sweep has run to its end before midnight (it is the last run, and the
\* job has been armed again at midnight).
C15_EndedDayClosed ==
  \A r \in Records :
    (att[r].date < day /\ sweep.today = att[r].date /\ sweep.pc = "idle")
      => att[r].outTime # Absent

\* C16: a run of the sweep sets checkOutTime to 23:59:59 on exactly the records
\* whose date is the date the job read when it fired and whose checkOutTime is
\* unset, and logs their number; it changes no other field and no other record,
\* and it creates and deletes no record and no user.
C16_SweepFrame ==
  [][SweepRuns =>
       /\ users' = users
       /\ Len(att') = Len(att)
       /\ \A r \in Records :
            att'[r] = IF att[r].date = sweep.today /\ att[r].outTime = Absent
                      THEN [att[r] EXCEPT !.outTime = SweepTime]
                      ELSE att[r]
       /\ sweep'.count =
            Cardinality({r \in Records :
                           att[r].date = sweep.today /\ att[r].outTime = Absent})
       /\ sweep'.today = sweep.today]_vars

\* C16 witness: the sweep of the second day has closed that day's open record
\* and counted 1, and the record the first day left open is still open.
C16_Witness ==
  /\ sweep.pc = "fired" /\ sweep.today = 2 /\ sweep.count = 1
  /\ \E r \in Records : att[r].date = 1 /\ att[r].outTime = Absent
  /\ \E r \in Records : att[r].date = 2 /\ att[r].outTime = SweepTime

\* C17: no step changes a user that is stored: every field keeps its value and
\* no field is added.
C17_UserNeverModified ==
  [][\A u \in 1..Len(users) : users'[u] = users[u]]_vars

\* The scan in slot i or the sweep acts in this step, and d is the date it works
\* with: the current date at the moment it read the clock.
ScanActs(i, d) == req[i].kind = "scan" /\ req'[i] # req[i] /\ req'[i].date = d
SweepActs(d) == sweep' # sweep /\ sweep'.pc # "idle" /\ sweep'.today = d

\* C18: a scan and a sweep take the current date when they read the clock, and
\* create or modify only records of that date: a record is changed or created
\* only by a scan or a sweep of its own date, and a record that an earlier day
\* left open is not touched by a scan or a sweep of a later date.
C18_WritesOfOwnDate ==
  [][/\ \A i \in Slots :
          (req[i].kind = "scan" /\ req[i].date = 0 /\ req'[i].date # 0)
            => req'[i].date = day
     /\ (sweep.pc # "update" /\ sweep'.pc = "update") => sweep'.today = day
     /\ \A r \in Records :
          att'[r] # att[r] =>
            \/ \E i \in Slots : ScanActs(i, att[r].date) /\ req[i].rec = r
            \/ SweepActs(att[r].date)
     /\ Len(att') > Len(att) =>
          /\ Len(att') = Len(att) + 1
          /\ \E i \in Slots : ScanActs(i, att'[Len(att')].date)
     /\ \A r \in Records, d \in Days :
          (/\ att[r].date < d /\ att[r].outTime = Absent
           /\ \/ \E i \in Slots : ScanActs(i, d)
              \/ SweepActs(d))
          => att'[r] = att[r]]_vars

\* C18 witness: the first day's record was left open; on the second day a scan
\* has checked the user in and the sweep has run, and the first day's record is
\* still open.
C18_Witness ==
  /\ \E r \in Records : att[r].date = 1 /\ att[r].outTime = Absent
  /\ \E i \in ScanSlots :
       /\ Done(i) /\ Status(i) = "IN" /\ req[i].date = 2
       /\ att[req[i].rec].date = 2
  /\ sweep.pc = "fired" /\ sweep.today = 2 /\ day = 2

\* C19: every record stored has a checkInTime, and the identifier and the name
\* of a user of the directory; no step changes the identifier, the date or the
\* checkInTime of a record, and no step removes a record or a user.
C19_RecordsWellFormed ==
  [][/\ Len(att') >= Len(att)
     /\ Len(users') >= Len(users)
     /\ \A r \in Records :
          /\ att'[r].cardUID = att[r].cardUID
          /\ att'[r].date = att[r].date
          /\ att'[r].inTime = att[r].inTime
     /\ \A u \in 1..Len(users) :
          users'[u].cardUID = users[u].cardUID /\ users'[u].name = users[u].name
     /\ \A r \in 1..Len(att') :
          /\ att'[r].inTime # Absent
          /\ \E u \in 1..Len(users') :
               /\ att'[r].cardUID = users'[u].cardUID
               /\ att'[r].name = users'[u].name
          /\ \E i \in RegSlots :
               /\ req[i].resp.code = 200
               /\ att'[r].cardUID = padStart(toUpperCase(trim(req[i].raw)), 8, "0")]_vars

\* C19 witness: a record that a scan opened at 09:00:00 and the sweep closed is
\* stored next to a record of the next day, both under their user's identifier
\* and name.
C19_Witness ==
  \E r, q \in Records :
    /\ att[r].date = 1 /\ att[q].date = 2
    /\ att[r].inTime = <<9, 0, 0>> /\ att[r].outTime = SweepTime
    /\ \E u \in 1..Len(users) :
         /\ users[u].cardUID = att[r].cardUID /\ users[u].name = att[r].name
         /\ users[u].cardUID = att[q].cardUID /\ users[u].name = att[q].name

====
